---- MODULE Spec2Model ----
(***************************************************************************)
(* Model of the seller-apis repository: seller.py (Ozon) and market.py     *)
(* (Yandex Market).  Python strings are sequences of one-character         *)
(* strings; a Python value read from the spreadsheet is either an int or   *)
(* a str and carries its type in the field t.                              *)
(***************************************************************************)
EXTENDS Integers, Sequences, FiniteSets, TLC

(***************************************************************************)
(* Bounds of the model.                                                    *)
(***************************************************************************)
MaxRows == 2        \* rows of an inventory passed to create_stocks / create_prices
MaxIds == 3         \* length of an offer-id list passed to them
MaxList == 5        \* length of a list passed to divide
MaxChunk == 3       \* chunk size passed to divide
MaxPriceLen == 4    \* length of a price string passed to price_conversion
MaxPages == 2       \* pages one get_offer_ids call fetches
OzonBulk == 201     \* offer ids of the large Ozon page
MarketBulk == 2001  \* offer ids of the large Yandex page

(***************************************************************************)
(* Constants of the program.                                               *)
(***************************************************************************)
OzonStockBatch == 100
OzonPriceBatch == 900
MarketStockBatch == 2000
MarketPriceBatch == 500

(***************************************************************************)
(* Python values and the built-ins the code applies to them.               *)
(***************************************************************************)
PyInt(n) == [t |-> "int", v |-> n]
PyStr(s) == [t |-> "str", v |-> s]

AsciiDigits == <<"0", "1", "2", "3", "4", "5", "6", "7", "8", "9">>

IsAsciiDigit(c) == \E d \in 1..10 : AsciiDigits[d] = c

DigitValue(c) == (CHOOSE d \in 1..10 : AsciiDigits[d] = c) - 1

SeqUpTo(S, n) == UNION {[1..k -> S] : k \in 0..n}

RECURSIVE NatToStr(_)
NatToStr(n) ==
    IF n < 10 THEN <<AsciiDigits[n + 1]>>
    ELSE Append(NatToStr(n \div 10), AsciiDigits[(n % 10) + 1])

\* str(x): the decimal text of an int, a str unchanged.
str(x) ==
    IF x.t = "int"
    THEN (IF x.v < 0 THEN <<"-">> \o NatToStr(0 - x.v) ELSE NatToStr(x.v))
    ELSE x.v

RECURSIVE DigitsToNat(_)
DigitsToNat(s) ==
    IF s = <<>> THEN 0
    ELSE 10 * DigitsToNat(SubSeq(s, 1, Len(s) - 1)) + DigitValue(s[Len(s)])

RECURSIVE strip(_)
strip(s) ==
    IF s = <<>> THEN s
    ELSE IF Head(s) = " " THEN strip(Tail(s))
    ELSE IF s[Len(s)] = " " THEN strip(SubSeq(s, 1, Len(s) - 1))
    ELSE s

\* int(x): an int unchanged; a str is stripped of blanks, may carry one sign
\* and must then be a non-empty run of digits, otherwise ValueError.
int(x) ==
    IF x.t = "int" THEN [exc |-> "none", v |-> x.v]
    ELSE LET s == strip(x.v)
             signed == s # <<>> /\ Head(s) \in {"+", "-"}
             body == IF signed THEN Tail(s) ELSE s
         IN  IF body # <<>> /\ \A k \in 1..Len(body) : IsAsciiDigit(body[k])
             THEN [exc |-> "none",
                   v |-> IF signed /\ Head(s) = "-"
                         THEN 0 - DigitsToNat(body) ELSE DigitsToNat(body)]
             ELSE [exc |-> "ValueError", v |-> 0]

\* x in lst
In(x, lst) == \E k \in 1..Len(lst) : lst[k] = x

\* Mutant of remove: the list is left as it was.
remove_nothing(lst, x) == lst

\* lst.remove(x): the first occurrence is removed (x is in lst at every call).
remove(lst, x) ==
    LET k == CHOOSE i \in 1..Len(lst) :
                 lst[i] = x /\ \A j \in 1..(i - 1) : lst[j] # x
    IN  SubSeq(lst, 1, k - 1) \o SubSeq(lst, k + 1, Len(lst))

\* s.split(sep) for a one-character separator.
RECURSIVE split(_, _)
split(s, sep) ==
    IF ~In(sep, s) THEN <<s>>
    ELSE LET k == CHOOSE i \in 1..Len(s) :
                      s[i] = sep /\ \A j \in 1..(i - 1) : s[j] # sep
         IN  <<SubSeq(s, 1, k - 1)>> \o split(SubSeq(s, k + 1, Len(s)), sep)

\* re.sub("[^0-9]", "", s)
re_sub_non_digits(s) == SelectSeq(s, IsAsciiDigit)

(***************************************************************************)
(* seller.py: the pure functions.                                          *)
(***************************************************************************)
\* Mutant of price_conversion: the text is not cut at the first ".".
price_conversion_uncut(price) == re_sub_non_digits(price)

price_conversion(price) == re_sub_non_digits(split(price, ".")[1])

\* Mutant of divide: the chunks come out last first.
divide_last_first(lst, n) ==
    LET count == (Len(lst) + n - 1) \div n
    IN  [k \in 1..count |->
            SubSeq(lst, (count - k) * n + 1,
                   IF (count - k + 1) * n < Len(lst)
                   THEN (count - k + 1) * n ELSE Len(lst))]

\* Mutant of divide: every slice is one element too long, lst[i: i + n + 1].
divide_one_more(lst, n) ==
    [k \in 1..((Len(lst) + n - 1) \div n) |->
        SubSeq(lst, (k - 1) * n + 1,
               IF k * n + 1 < Len(lst) THEN k * n + 1 ELSE Len(lst))]

\* Mutant of divide: the last, shorter chunk is dropped.
divide_full_chunks(lst, n) ==
    [k \in 1..(Len(lst) \div n) |-> SubSeq(lst, (k - 1) * n + 1, k * n)]

\* range(0, len(lst), n) for n > 0 has ceil(len / n) elements.
divide(lst, n) ==
    [k \in 1..((Len(lst) + n - 1) \div n) |->
        SubSeq(lst, (k - 1) * n + 1,
               IF k * n < Len(lst) THEN k * n ELSE Len(lst))]

\* Mutant of stock_count: the quantity "1" is read as the number 1.
stock_count_literal_one(watch) ==
    LET count == str(watch.Kolichestvo)
    IN  IF count = <<">", "1", "0">> THEN [exc |-> "none", v |-> 100]
        ELSE int(watch.Kolichestvo)

\* The count of a matched row (seller.py 209-215, market.py 157-163).
stock_count(watch) ==
    LET count == str(watch.Kolichestvo)
    IN  IF count = <<">", "1", "0">> THEN [exc |-> "none", v |-> 100]
        ELSE IF count = <<"1">> THEN [exc |-> "none", v |-> 0]
        ELSE int(watch.Kolichestvo)

seller_stock_record(offer_id, stock) == [offer_id |-> offer_id, stock |-> stock]

\* The first loop of create_stocks from row i on; offer_ids is the caller's
\* list, changed in place, so it is returned with the records.
RECURSIVE seller_match_rows(_, _, _, _)
seller_match_rows(watch_remnants, i, stocks, offer_ids) ==
    IF i > Len(watch_remnants)
    THEN [exc |-> "none", stocks |-> stocks, offer_ids |-> offer_ids]
    ELSE LET watch == watch_remnants[i]
             code == str(watch.Kod)
         IN  IF In(code, offer_ids)
             THEN LET stock == stock_count(watch)
                  IN  IF stock.exc # "none"
                      THEN [exc |-> stock.exc, stocks |-> stocks,
                            offer_ids |-> offer_ids]
                      ELSE seller_match_rows(watch_remnants, i + 1,
                               Append(stocks, seller_stock_record(code, stock.v)),
                               remove(offer_ids, code))
             ELSE seller_match_rows(watch_remnants, i + 1, stocks, offer_ids)

\* Mutant of create_stocks: the fallback records come first.
seller_create_stocks_fallback_first(watch_remnants, offer_ids) ==
    LET m == seller_match_rows(watch_remnants, 1, <<>>, offer_ids)
    IN  IF m.exc # "none" THEN m
        ELSE [m EXCEPT !.stocks =
                 [k \in 1..Len(m.offer_ids) |->
                     seller_stock_record(m.offer_ids[k], 0)] \o m.stocks]

seller_create_stocks(watch_remnants, offer_ids) ==
    LET m == seller_match_rows(watch_remnants, 1, <<>>, offer_ids)
    IN  IF m.exc # "none" THEN m
        ELSE [m EXCEPT !.stocks = m.stocks \o
                 [k \in 1..Len(m.offer_ids) |->
                     seller_stock_record(m.offer_ids[k], 0)]]

seller_price_record(offer_id, price) ==
    [auto_action_enabled |-> "UNKNOWN", currency_code |-> "RUB",
     offer_id |-> offer_id, old_price |-> "0", price |-> price]

RECURSIVE seller_price_rows(_, _, _, _)
seller_price_rows(watch_remnants, i, prices, offer_ids) ==
    IF i > Len(watch_remnants)
    THEN [exc |-> "none", prices |-> prices, offer_ids |-> offer_ids]
    ELSE LET watch == watch_remnants[i]
             code == str(watch.Kod)
         IN  IF In(code, offer_ids)
             THEN seller_price_rows(watch_remnants, i + 1,
                      Append(prices,
                             seller_price_record(code, price_conversion(watch.Tsena))),
                      offer_ids)
             ELSE seller_price_rows(watch_remnants, i + 1, prices, offer_ids)

seller_create_prices(watch_remnants, offer_ids) ==
    seller_price_rows(watch_remnants, 1, <<>>, offer_ids)

(***************************************************************************)
(* market.py: the pure functions.                                          *)
(***************************************************************************)
market_stock_record(sku, warehouse_id, count, date) ==
    [sku |-> sku, warehouseId |-> warehouse_id,
     items |-> <<[count |-> count, type |-> "FIT", updatedAt |-> date]>>]

RECURSIVE market_match_rows(_, _, _, _, _, _)
market_match_rows(watch_remnants, i, stocks, offer_ids, warehouse_id, date) ==
    IF i > Len(watch_remnants)
    THEN [exc |-> "none", stocks |-> stocks, offer_ids |-> offer_ids]
    ELSE LET watch == watch_remnants[i]
             code == str(watch.Kod)
         IN  IF In(code, offer_ids)
             THEN LET stock == stock_count(watch)
                  IN  IF stock.exc # "none"
                      THEN [exc |-> stock.exc, stocks |-> stocks,
                            offer_ids |-> offer_ids]
                      ELSE market_match_rows(watch_remnants, i + 1,
                               Append(stocks,
                                   market_stock_record(code, warehouse_id,
                                                       stock.v, date)),
                               remove(offer_ids, code), warehouse_id, date)
             ELSE market_match_rows(watch_remnants, i + 1, stocks, offer_ids,
                                    warehouse_id, date)

\* date is the text of utcnow() at the call.
market_create_stocks(watch_remnants, offer_ids, warehouse_id, date) ==
    LET m == market_match_rows(watch_remnants, 1, <<>>, offer_ids,
                               warehouse_id, date)
    IN  IF m.exc # "none" THEN m
        ELSE [m EXCEPT !.stocks = m.stocks \o
                 [k \in 1..Len(m.offer_ids) |->
                     market_stock_record(m.offer_ids[k], warehouse_id, 0, date)]]

market_price_record(id, value) ==
    [id |-> id, price |-> [value |-> value, currencyId |-> "RUR"]]

RECURSIVE market_price_rows(_, _, _, _)
market_price_rows(watch_remnants, i, prices, offer_ids) ==
    IF i > Len(watch_remnants)
    THEN [exc |-> "none", prices |-> prices, offer_ids |-> offer_ids]
    ELSE LET watch == watch_remnants[i]
             code == str(watch.Kod)
         IN  IF In(code, offer_ids)
             THEN LET value == int(PyStr(price_conversion(watch.Tsena)))
                  IN  IF value.exc # "none"
                      THEN [exc |-> value.exc, prices |-> prices,
                            offer_ids |-> offer_ids]
                      ELSE market_price_rows(watch_remnants, i + 1,
                               Append(prices, market_price_record(code, value.v)),
                               offer_ids)
             ELSE market_price_rows(watch_remnants, i + 1, prices, offer_ids)

\* Mutant of create_prices: every offer id left without a row gets a zero price.
market_create_prices_with_fallback(watch_remnants, offer_ids) ==
    LET m == market_price_rows(watch_remnants, 1, <<>>, offer_ids)
        rest == SelectSeq(offer_ids,
                    LAMBDA id : \A k \in 1..Len(watch_remnants) :
                                    str(watch_remnants[k].Kod) # id)
    IN  IF m.exc # "none" THEN m
        ELSE [m EXCEPT !.prices = m.prices \o
                 [k \in 1..Len(rest) |-> market_price_record(rest[k], 0)]]

market_create_prices(watch_remnants, offer_ids) ==
    market_price_rows(watch_remnants, 1, <<>>, offer_ids)

(***************************************************************************)
(* State.  call is the record of one direct call of a pure function (its   *)
(* arguments and what it returned); the other variables are the state of   *)
(* one run of an entry point.                                              *)
(***************************************************************************)
VARIABLES call,
    prog,            \* the entry point that runs: "seller" or "market"
    pc,              \* where main is
    env_read,        \* environment variables main has read
    account,         \* "ozon", or the Yandex campaign: "fbs", "dbs"
    watch_remnants,  \* what download_stock returned
    product_list,    \* get_offer_ids: the items fetched so far
    page,            \* get_offer_ids: last_id (Ozon), page token (Yandex)
    npages,          \* get_offer_ids: pages fetched by this call
    total,           \* seller.get_offer_ids: the total of the last answer
    offer_ids,       \* main's offer_ids list
    stocks,          \* main's stocks
    prices,          \* main's prices
    batches,         \* the batches the running for loop has still to submit
    http,            \* every HTTP call made, in order, with its outcome
    printed,         \* what main printed
    exc,             \* the exception that left main, "none" if none
    coroutines       \* coroutine objects created and never run

mainVars ==
    <<prog, pc, env_read, account, watch_remnants, product_list, page, npages,
      total, offer_ids, stocks, prices, batches, http, printed, exc, coroutines>>

vars == <<call, mainVars>>

NoCall ==
    [fn |-> "none", watch_remnants |-> <<>>, offer_ids |-> <<>>,
     lst |-> <<>>, n |-> 0, price |-> <<>>, ret |-> <<>>]

(***************************************************************************)
(* Inputs of the direct calls.                                             *)
(***************************************************************************)
OfferIdSet == {<<"1">>, <<"2">>, <<"3">>}

CodeSet == {PyInt(1), PyStr(<<"2">>), PyStr(<<"9">>)}

QuantitySet ==
    {PyStr(<<">", "1", "0">>), PyStr(<<"1">>), PyStr(<<"7">>), PyInt(1),
     PyStr(<<"x">>)}

PriceSet == {<<"1", "'", "2", ".", "5", "0">>, <<"9", "0">>, <<"r", ".">>}

StockRows ==
    {[Kod |-> c, Kolichestvo |-> q, Tsena |-> <<"5">>] :
        c \in CodeSet, q \in QuantitySet}

PriceRows ==
    {[Kod |-> c, Kolichestvo |-> PyStr(<<"7">>), Tsena |-> p] :
        c \in CodeSet, p \in PriceSet}

WarehouseIds == {"WAREHOUSE_FBS_ID", "WAREHOUSE_DBS_ID"}

\* A character that is a digit in Unicode but not in ASCII.
ArabicThree == "U+0663"

PriceChars == {"1", "5", ".", "'", "r", ArabicThree}

\* "1'234.50 руб." of the docstring and the specification.
PriceExample ==
    <<"1", "'", "2", "3", "4", ".", "5", "0", " ", "r", "u", "b", ".">>

Elements == {"a", "b"}

\* The inventory of the scenario of create_stocks' docstring.
ExampleRows ==
    <<[Kod |-> PyStr(<<"1">>), Kolichestvo |-> PyStr(<<"5">>), Tsena |-> <<"5">>],
      [Kod |-> PyStr(<<"2">>), Kolichestvo |-> PyStr(<<">", "1", "0">>),
       Tsena |-> <<"5">>]>>

StockInventories == SeqUpTo(StockRows, MaxRows) \cup {ExampleRows}

PriceInventories == SeqUpTo(PriceRows, MaxRows)

OfferIdLists == SeqUpTo(OfferIdSet, MaxIds)

(***************************************************************************)
(* Direct calls of the pure functions.                                     *)
(***************************************************************************)
CallSellerCreateStocks ==
    /\ call.fn = "none"
    /\ UNCHANGED mainVars
    /\ \E rows \in StockInventories, ids \in OfferIdLists :
         call' = [NoCall EXCEPT !.fn = "seller.create_stocks",
                                !.watch_remnants = rows, !.offer_ids = ids,
                                !.ret = seller_create_stocks(rows, ids)]

CallMarketCreateStocks ==
    /\ call.fn = "none"
    /\ UNCHANGED mainVars
    /\ \E rows \in StockInventories, ids \in OfferIdLists :
         call' = [NoCall EXCEPT !.fn = "market.create_stocks",
                                !.watch_remnants = rows, !.offer_ids = ids,
                                !.ret = market_create_stocks(rows, ids,
                                            "WAREHOUSE_FBS_ID", "utcnow")]

CallSellerCreatePrices ==
    /\ call.fn = "none"
    /\ UNCHANGED mainVars
    /\ \E rows \in PriceInventories, ids \in OfferIdLists :
         call' = [NoCall EXCEPT !.fn = "seller.create_prices",
                                !.watch_remnants = rows, !.offer_ids = ids,
                                !.ret = seller_create_prices(rows, ids)]

CallMarketCreatePrices ==
    /\ call.fn = "none"
    /\ UNCHANGED mainVars
    /\ \E rows \in PriceInventories, ids \in OfferIdLists :
         call' = [NoCall EXCEPT !.fn = "market.create_prices",
                                !.watch_remnants = rows, !.offer_ids = ids,
                                !.ret = market_create_prices(rows, ids)]

CallDivide ==
    /\ call.fn = "none"
    /\ UNCHANGED mainVars
    /\ \E lst \in SeqUpTo(Elements, MaxList), n \in 1..MaxChunk :
         call' = [NoCall EXCEPT !.fn = "divide", !.lst = lst, !.n = n,
                                !.ret = divide(lst, n)]

CallPriceConversion ==
    /\ call.fn = "none"
    /\ UNCHANGED mainVars
    /\ \E price \in SeqUpTo(PriceChars, MaxPriceLen) \cup {PriceExample} :
         call' = [NoCall EXCEPT !.fn = "price_conversion", !.price = price,
                                !.ret = price_conversion(price)]

PyNone == [t |-> "none", v |-> 0]

InitMain(p) ==
    /\ prog = p
    /\ pc = IF p = "none" THEN "idle" ELSE "env"
    /\ env_read = 0
    /\ account = IF p = "seller" THEN "ozon" ELSE IF p = "market" THEN "fbs" ELSE "none"
    /\ watch_remnants = <<>>
    /\ product_list = <<>>
    /\ page = PyStr(<<>>)
    /\ npages = 0
    /\ total = PyNone
    /\ offer_ids = <<>>
    /\ stocks = <<>>
    /\ prices = <<>>
    /\ batches = <<>>
    /\ http = <<>>
    /\ printed = <<>>
    /\ exc = "none"
    /\ coroutines = 0

InitFn == call = NoCall /\ InitMain("none")

NextFn ==
    \/ CallSellerCreateStocks
    \/ CallMarketCreateStocks
    \/ CallSellerCreatePrices
    \/ CallMarketCreatePrices
    \/ CallDivide
    \/ CallPriceConversion

SpecFn == InitFn /\ [][NextFn]_vars

(***************************************************************************)
(* The two entry points: seller.main (Ozon) and market.main (Yandex).      *)
(***************************************************************************)
EnvNames(p) ==
    IF p = "seller" THEN <<"SELLER_TOKEN", "CLIENT_ID">>
    ELSE <<"MARKET_TOKEN", "FBS_ID", "DBS_ID", "WAREHOUSE_FBS_ID",
           "WAREHOUSE_DBS_ID">>

\* What requests raises: a read timeout, a connection failure, and
\* raise_for_status on an error status.
HttpErrors == {"ReadTimeout", "ConnectionError", "HTTPError"}

\* The positions of main that lie inside its try block.
InTry(p, at) ==
    IF p = "seller" THEN at # "env" ELSE at \notin {"env", "download_stock"}

\* The except clauses of main.
Message(e) ==
    IF e = "ReadTimeout" THEN [error |-> e, text |-> "timeout"]
    ELSE IF e = "ConnectionError" THEN [error |-> e, text |-> "connection error"]
    ELSE [error |-> e, text |-> "ERROR_2"]

\* Mutant of Raise: the handler prints the error and main goes on where it was.
RaiseAndGoOn(e) ==
    /\ pc' = pc
    /\ printed' = Append(printed, Message(e))
    /\ exc' = exc

\* Exception e is raised at the current position: a handler of the try block
\* prints it and main returns, or it leaves main.
Raise(e) ==
    /\ pc' = "done"
    /\ IF InTry(prog, pc)
       THEN printed' = Append(printed, Message(e)) /\ exc' = exc
       ELSE exc' = e /\ printed' = printed

HttpCall(op, payload, outcome) ==
    [op |-> op, account |-> account, payload |-> payload, outcome |-> outcome]

\* The offer ids "1" .. "n".
BulkIds(n) == [i \in 1..n |-> NatToStr(i)]

\* What the Ozon listing may answer: the offer ids of the page, the total
\* and the last id.
OzonResults ==
    {[items |-> it, total |-> t, last_id |-> PyStr(<<"l">>)] :
        it \in {<<>>, <<<<"1">>>>, <<<<"2">>, <<"3">>>>}, t \in {0, 1, 2, 3}}
    \cup {[items |-> BulkIds(OzonBulk), total |-> OzonBulk,
           last_id |-> PyStr(<<"l">>)]}

\* What the Yandex listing may answer: the shopSku of the page and the token
\* of the next page.
MarketResults ==
    {[items |-> it, nextPageToken |-> tok] :
        it \in {<<<<"1">>>>, <<<<"2">>, <<"3">>>>},
        tok \in {PyNone, PyStr(<<>>), PyStr(<<"p">>)}}
    \cup {[items |-> BulkIds(MarketBulk), nextPageToken |-> PyNone]}

FeedRowA == [Kod |-> PyInt(1), Kolichestvo |-> PyStr(<<"5">>),
             Tsena |-> <<"1", "'", "2", ".", "5", "0">>]
FeedRowB == [Kod |-> PyStr(<<"2">>), Kolichestvo |-> PyStr(<<">", "1", "0">>),
             Tsena |-> <<"9", "0">>]
FeedRowC == [Kod |-> PyStr(<<"3">>), Kolichestvo |-> PyStr(<<"x">>),
             Tsena |-> <<"r", ".">>]
FeedRowD == [Kod |-> PyStr(<<"2">>), Kolichestvo |-> PyInt(1),
             Tsena |-> <<"5">>]

\* The inventories download_stock may return.
Feeds ==
    {<<>>, <<FeedRowA>>, <<FeedRowA, FeedRowB>>, <<FeedRowB, FeedRowD>>,
     <<FeedRowC, FeedRowA>>}

\* not page
Falsy(x) == x.t = "none" \/ (x.t = "str" /\ x.v = <<>>)

\* env.str(name), seller.py 376-377 and market.py 302-306.
ReadEnv ==
    /\ pc = "env"
    /\ \E present \in BOOLEAN :
         IF present
         THEN /\ env_read' = env_read + 1
              /\ pc' = IF env_read + 1 < Len(EnvNames(prog)) THEN "env"
                       ELSE IF prog = "seller" THEN "get_offer_ids"
                       ELSE "download_stock"
              /\ UNCHANGED <<printed, exc>>
         ELSE Raise("EnvError") /\ UNCHANGED env_read
    /\ UNCHANGED <<call, prog, account, watch_remnants, product_list, page,
                   npages, total, offer_ids, stocks, prices, batches, http, coroutines>>

\* One turn of the loop of seller.get_offer_ids.
SellerGetOfferIds ==
    /\ prog = "seller"
    /\ pc = "get_offer_ids"
    /\ npages < MaxPages
    /\ \/ \E e \in HttpErrors :
            /\ http' = Append(http, HttpCall("product_list", page, e))
            /\ Raise(e)
            /\ UNCHANGED <<product_list, page, npages, total, offer_ids>>
       \/ \* the answer has no "result"
          /\ http' = Append(http, HttpCall("product_list", page, "ok"))
          /\ Raise("AttributeError")
          /\ UNCHANGED <<product_list, page, npages, total, offer_ids>>
       \/ \E some_prod \in OzonResults :
            LET fetched == product_list \o some_prod.items
            IN  /\ http' = Append(http, HttpCall("product_list", page, "ok"))
                /\ page' = some_prod.last_id
                /\ IF some_prod.total = Len(fetched)
                   THEN /\ offer_ids' = fetched
                        /\ product_list' = <<>>
                        /\ npages' = 0
                        /\ total' = PyNone
                        /\ pc' = "download_stock"
                   ELSE /\ product_list' = fetched
                        /\ npages' = npages + 1
                        /\ total' = some_prod.total
                        /\ UNCHANGED <<offer_ids, pc>>
                /\ UNCHANGED <<printed, exc>>
    /\ UNCHANGED <<call, prog, env_read, account, watch_remnants, stocks,
                   prices, batches, coroutines>>

\* One turn of the loop of market.get_offer_ids.
MarketGetOfferIds ==
    /\ prog = "market"
    /\ pc = "get_offer_ids"
    /\ npages < MaxPages
    /\ \/ \E e \in HttpErrors :
            /\ http' = Append(http, HttpCall("product_list", page, e))
            /\ Raise(e)
            /\ UNCHANGED <<product_list, page, npages, total, offer_ids>>
       \/ \* the answer has no "result"
          /\ http' = Append(http, HttpCall("product_list", page, "ok"))
          /\ Raise("AttributeError")
          /\ UNCHANGED <<product_list, page, npages, total, offer_ids>>
       \/ \E some_prod \in MarketResults :
            LET fetched == product_list \o some_prod.items
            IN  /\ http' = Append(http, HttpCall("product_list", page, "ok"))
                /\ IF Falsy(some_prod.nextPageToken)
                   THEN /\ offer_ids' = fetched
                        /\ product_list' = <<>>
                        /\ page' = PyStr(<<>>)
                        /\ npages' = 0
                        /\ pc' = "create_stocks"
                   ELSE /\ product_list' = fetched
                        /\ page' = some_prod.nextPageToken
                        /\ npages' = npages + 1
                        /\ UNCHANGED <<offer_ids, pc>>
                /\ UNCHANGED <<printed, exc>>
    /\ UNCHANGED <<call, prog, env_read, account, watch_remnants, total, stocks,
                   prices, batches, coroutines>>

\* download_stock(): the archive is fetched, unpacked and read.
DownloadStock ==
    /\ pc = "download_stock"
    /\ \/ \E e \in HttpErrors :
            /\ http' = Append(http, HttpCall("feed", <<>>, e))
            /\ Raise(e)
            /\ UNCHANGED watch_remnants
       \/ \* the archive or the sheet cannot be read
          /\ http' = Append(http, HttpCall("feed", <<>>, "ok"))
          /\ Raise("BadZipFile")
          /\ UNCHANGED watch_remnants
       \/ \E rows \in Feeds :
            /\ http' = Append(http, HttpCall("feed", <<>>, "ok"))
            /\ watch_remnants' = rows
            /\ pc' = IF prog = "seller" THEN "create_stocks" ELSE "get_offer_ids"
            /\ UNCHANGED <<printed, exc>>
    /\ UNCHANGED <<call, prog, env_read, account, product_list, page, npages, total,
                   offer_ids, stocks, prices, batches, coroutines>>

\* Where main goes once the stock batches are submitted.
AfterStocks == IF prog = "seller" THEN "create_prices" ELSE "upload_prices"

\* utcnow() of market.create_stocks: the clock moves with every HTTP call.
UtcNow == Len(http)

WarehouseOf(a) == IF a = "fbs" THEN "WAREHOUSE_FBS_ID" ELSE "WAREHOUSE_DBS_ID"

\* stocks = create_stocks(...) and list(divide(stocks, n)):
\* seller.py 381-382, market.py 311-312 and 317-318.
CreateStocks ==
    /\ pc = "create_stocks"
    /\ LET r == IF prog = "seller"
                THEN seller_create_stocks(watch_remnants, offer_ids)
                ELSE market_create_stocks(watch_remnants, offer_ids,
                                          WarehouseOf(account), UtcNow)
           some == divide(r.stocks,
                          IF prog = "seller" THEN OzonStockBatch
                          ELSE MarketStockBatch)
       IN  /\ offer_ids' = r.offer_ids
           /\ IF r.exc # "none"
              THEN Raise(r.exc) /\ UNCHANGED <<stocks, batches>>
              ELSE /\ stocks' = r.stocks
                   /\ batches' = some
                   /\ pc' = IF some = <<>> THEN AfterStocks ELSE "update_stocks"
                   /\ UNCHANGED <<printed, exc>>
    /\ UNCHANGED <<call, prog, env_read, account, watch_remnants, product_list,
                   page, npages, total, prices, http, coroutines>>

\* update_stocks(some_stock, ...) of the for loop.
UpdateStocks ==
    /\ pc = "update_stocks"
    /\ batches # <<>>
    /\ \/ \E e \in HttpErrors :
            /\ http' = Append(http, HttpCall("stocks", Head(batches), e))
            /\ Raise(e)
            /\ UNCHANGED batches
       \/ /\ http' = Append(http, HttpCall("stocks", Head(batches), "ok"))
          /\ batches' = Tail(batches)
          /\ pc' = IF Tail(batches) = <<>> THEN AfterStocks ELSE "update_stocks"
          /\ UNCHANGED <<printed, exc>>
    /\ UNCHANGED <<call, prog, env_read, account, watch_remnants, product_list,
                   page, npages, total, offer_ids, stocks, prices, coroutines>>

\* prices = create_prices(watch_remnants, offer_ids) and
\* list(divide(prices, 900)), seller.py 384-385: offer_ids is the list
\* create_stocks has changed.
SellerCreatePrices ==
    /\ prog = "seller"
    /\ pc = "create_prices"
    /\ LET r == seller_create_prices(watch_remnants, offer_ids)
           some == divide(r.prices, OzonPriceBatch)
       IN  /\ prices' = r.prices
           /\ batches' = some
           /\ pc' = IF some = <<>> THEN "done" ELSE "update_price"
    /\ UNCHANGED <<call, prog, env_read, account, watch_remnants, product_list,
                   page, npages, total, offer_ids, stocks, http, printed, exc,
                   coroutines>>

\* update_price(some_price, ...) of the for loop, seller.py 385-386.
SellerUpdatePrice ==
    /\ prog = "seller"
    /\ pc = "update_price"
    /\ batches # <<>>
    /\ \/ \E e \in HttpErrors :
            /\ http' = Append(http, HttpCall("prices", Head(batches), e))
            /\ Raise(e)
            /\ UNCHANGED batches
       \/ /\ http' = Append(http, HttpCall("prices", Head(batches), "ok"))
          /\ batches' = Tail(batches)
          /\ pc' = IF Tail(batches) = <<>> THEN "done" ELSE "update_price"
          /\ UNCHANGED <<printed, exc>>
    /\ UNCHANGED <<call, prog, env_read, account, watch_remnants, product_list,
                   page, npages, total, offer_ids, stocks, prices, coroutines>>

\* upload_prices(watch_remnants, campaign_id, market_token), market.py 314
\* and 320: upload_prices is an async def and the call is not awaited, so
\* the call makes a coroutine object and runs none of the function's body.
MarketUploadPrices ==
    /\ prog = "market"
    /\ pc = "upload_prices"
    /\ coroutines' = coroutines + 1
    /\ IF account = "fbs"
       THEN account' = "dbs" /\ pc' = "get_offer_ids"
       ELSE account' = account /\ pc' = "done"
    /\ UNCHANGED <<call, prog, env_read, watch_remnants, product_list, page,
                   npages, total, offer_ids, stocks, prices, batches, http, printed,
                   exc>>

Init == call = NoCall /\ (InitMain("seller") \/ InitMain("market"))

Next ==
    \/ ReadEnv
    \/ SellerGetOfferIds
    \/ MarketGetOfferIds
    \/ DownloadStock
    \/ CreateStocks
    \/ UpdateStocks
    \/ SellerCreatePrices
    \/ SellerUpdatePrice
    \/ MarketUploadPrices

Spec == Init /\ [][Next]_vars

(***************************************************************************)
(* What the claims are stated with.                                        *)
(***************************************************************************)
NoDuplicates(lst) ==
    \A i, j \in 1..Len(lst) : lst[i] = lst[j] => i = j

StocksReturned ==
    /\ call.fn \in {"seller.create_stocks", "market.create_stocks"}
    /\ call.ret.exc = "none"

PricesReturned ==
    /\ call.fn \in {"seller.create_prices", "market.create_prices"}
    /\ call.ret.exc = "none"

\* The offer id and the count of a stock record of either marketplace.
StockId(r) == IF call.fn = "seller.create_stocks" THEN r.offer_id ELSE r.sku

StockCount(r) ==
    IF call.fn = "seller.create_stocks" THEN r.stock ELSE r.items[1].count

PriceId(r) == IF call.fn = "seller.create_prices" THEN r.offer_id ELSE r.id

PriceValue(r) ==
    IF call.fn = "seller.create_prices" THEN r.price ELSE r.price.value

\* Row i is the first row of the inventory with its code.
FirstWithCode(rows, i) ==
    \A j \in 1..(i - 1) : str(rows[j].Kod) # str(rows[i].Kod)

RECURSIVE Concat(_)
Concat(chunks) ==
    IF chunks = <<>> THEN <<>> ELSE Head(chunks) \o Concat(Tail(chunks))

\* C1: for an offer-id list without duplicates, create_stocks (Ozon and
\* Yandex) returns as many records as there were offer ids on entry, every
\* record's id is one of them and no id appears twice: every known offer id
\* appears exactly once.
C1_OneRecordPerOffer ==
    (StocksReturned /\ NoDuplicates(call.offer_ids)) =>
        LET out == call.ret.stocks
            ids == call.offer_ids
        IN  /\ Len(out) = Len(ids)
            /\ \A k \in 1..Len(out) : In(StockId(out[k]), ids)
            /\ \A i, j \in 1..Len(out) :
                   StockId(out[i]) = StockId(out[j]) => i = j
            /\ \A n \in 1..Len(ids) :
                   Cardinality({k \in 1..Len(out) :
                                    StockId(out[k]) = ids[n]}) = 1

C1_Witness ==
    /\ StocksReturned
    /\ call.fn = "market.create_stocks"
    /\ NoDuplicates(call.offer_ids)
    /\ Len(call.offer_ids) = MaxIds
    /\ Len(call.watch_remnants) = 2
    /\ \E i \in 1..2 : In(str(call.watch_remnants[i].Kod), call.offer_ids)
    /\ \E i \in 1..2 : ~In(str(call.watch_remnants[i].Kod), call.offer_ids)
    /\ Len(call.ret.stocks) = MaxIds

MatchedIds(rows, ids) ==
    LET idx == SelectSeq([i \in 1..Len(rows) |-> i],
                   LAMBDA i : In(str(rows[i].Kod), ids) /\ FirstWithCode(rows, i))
    IN  [k \in 1..Len(idx) |-> str(rows[idx[k]].Kod)]

UnmatchedIds(rows, ids) ==
    SelectSeq(ids, LAMBDA id : \A i \in 1..Len(rows) : str(rows[i].Kod) # id)

\* C5: the list create_stocks returns holds the matched records first, in
\* the order of their inventory rows, then the count 0 records of the
\* unmatched offer ids in the order they had in the list on entry; the
\* inventory [(1, "5"), (2, ">10")] with the offer ids [1, 2, 3] gives
\* [(1, 5), (2, 100), (3, 0)].
C5_MatchedThenFallback ==
    (StocksReturned /\ NoDuplicates(call.offer_ids)) =>
        LET out == call.ret.stocks
            rows == call.watch_remnants
            ids == call.offer_ids
            matched == MatchedIds(rows, ids)
        IN  /\ [k \in 1..Len(out) |-> StockId(out[k])] =
                   matched \o UnmatchedIds(rows, ids)
            /\ \A k \in (Len(matched) + 1)..Len(out) : StockCount(out[k]) = 0
            /\ (rows = ExampleRows /\ ids = <<<<"1">>, <<"2">>, <<"3">>>>) =>
                   [k \in 1..Len(out) |->
                       <<StockId(out[k]), StockCount(out[k])>>] =
                   <<<<<<"1">>, 5>>, <<<<"2">>, 100>>, <<<<"3">>, 0>>>>

C5_Witness ==
    /\ StocksReturned
    /\ call.fn = "seller.create_stocks"
    /\ call.watch_remnants = ExampleRows
    /\ call.offer_ids = <<<<"1">>, <<"2">>, <<"3">>>>
    /\ call.ret.stocks = <<seller_stock_record(<<"1">>, 5),
                           seller_stock_record(<<"2">>, 100),
                           seller_stock_record(<<"3">>, 0)>>

\* C6: for a list L and a positive N, the chunks of divide(L, N) put
\* together in order are L; every chunk but the last has N elements, the
\* last has between 1 and N, and an empty L gives no chunk.
C6_DivideChunks ==
    call.fn = "divide" =>
        LET chunks == call.ret
        IN  /\ Concat(chunks) = call.lst
            /\ \A k \in 1..(Len(chunks) - 1) : Len(chunks[k]) = call.n
            /\ chunks # <<>> =>
                   /\ Len(chunks[Len(chunks)]) >= 1
                   /\ Len(chunks[Len(chunks)]) <= call.n
            /\ call.lst = <<>> => chunks = <<>>

C6_Witness ==
    /\ call.fn = "divide"
    /\ Len(call.lst) = 5
    /\ call.n = 2
    /\ Len(call.ret) = 3
    /\ Len(call.ret[3]) = 1

\* The positions of a price text before its first ".", and the digits
\* among them.
BeforeFirstDot(s) ==
    {i \in 1..Len(s) : \A j \in 1..i : s[j] # "."}

DigitPositions(s) ==
    {i \in BeforeFirstDot(s) :
        s[i] \in {"0", "1", "2", "3", "4", "5", "6", "7", "8", "9"}}

\* C7: price_conversion(s) holds only ASCII digits and is the digits of the
\* part of s before its first ".", in order; "1'234.50 руб." gives "1234".
C7_PriceDigitsBeforeDot ==
    call.fn = "price_conversion" =>
        LET s == call.price
            out == call.ret
            pos == DigitPositions(s)
        IN  /\ \A k \in 1..Len(out) :
                   out[k] \in {"0", "1", "2", "3", "4", "5", "6", "7", "8", "9"}
            /\ Len(out) = Cardinality(pos)
            /\ \A i \in pos :
                   out[Cardinality({j \in pos : j <= i})] = s[i]
            /\ s = PriceExample => out = <<"1", "2", "3", "4">>

C7_Witness ==
    /\ call.fn = "price_conversion"
    /\ call.price = PriceExample
    /\ call.ret = <<"1", "2", "3", "4">>

\* C8: create_prices (Ozon and Yandex) returns one record for every
\* inventory row whose code is in the offer-id list, in row order, with the
\* row's normalized price (its text for Ozon, its number for Yandex); an
\* offer id without a row gets no record, and the offer-id list is left as
\* it was.
C8_PricesOfMatchedRows ==
    PricesReturned =>
        LET out == call.ret.prices
            rows == call.watch_remnants
            ids == call.offer_ids
            matched == SelectSeq(rows, LAMBDA w : In(str(w.Kod), ids))
        IN  /\ Len(out) = Len(matched)
            /\ \A k \in 1..Len(matched) :
                 /\ PriceId(out[k]) = str(matched[k].Kod)
                 /\ call.fn = "seller.create_prices" =>
                        PriceValue(out[k]) = price_conversion(matched[k].Tsena)
                 /\ call.fn = "market.create_prices" =>
                        PriceValue(out[k]) =
                            DigitsToNat(price_conversion(matched[k].Tsena))
            /\ \A k \in 1..Len(out) :
                   \E i \in 1..Len(rows) : str(rows[i].Kod) = PriceId(out[k])
            /\ call.ret.offer_ids = ids

C8_Witness ==
    /\ PricesReturned
    /\ call.fn = "market.create_prices"
    /\ call.offer_ids = <<<<"1">>, <<"2">>, <<"3">>>>
    /\ Len(call.watch_remnants) = 2
    /\ str(call.watch_remnants[1].Kod) = <<"1">>
    /\ str(call.watch_remnants[2].Kod) = <<"2">>
    /\ call.watch_remnants[1].Tsena = <<"1", "'", "2", ".", "5", "0">>
    /\ Len(call.ret.prices) = 2
    /\ call.ret.prices[1] = market_price_record(<<"1">>, 12)

\* The number of times x is in lst.
Occurrences(x, lst) == Cardinality({k \in 1..Len(lst) : lst[k] = x})

\* rows without the rows that repeat the code c of an earlier row.
WithoutLaterRows(rows, c) ==
    LET idx == SelectSeq([i \in 1..Len(rows) |-> i],
                   LAMBDA i : str(rows[i].Kod) = c => FirstWithCode(rows, i))
    IN  [k \in 1..Len(idx) |-> rows[idx[k]]]

\* C11: when several inventory rows carry one code and that code is once in
\* the offer-id list, create_stocks returns exactly one record for it, with
\* the count of the first of these rows; the later rows add nothing and the
\* result is the one the inventory without them gives.
C11_FirstRowWins ==
    StocksReturned =>
        LET out == call.ret.stocks
            rows == call.watch_remnants
            ids == call.offer_ids
        IN  \A i \in 1..Len(rows) :
              LET c == str(rows[i].Kod)
              IN  (/\ FirstWithCode(rows, i)
                   /\ \E j \in (i + 1)..Len(rows) : str(rows[j].Kod) = c
                   /\ Occurrences(c, ids) = 1) =>
                      /\ Cardinality({k \in 1..Len(out) : StockId(out[k]) = c}) = 1
                      /\ \A k \in 1..Len(out) :
                             StockId(out[k]) = c =>
                                 StockCount(out[k]) = stock_count(rows[i]).v
                      /\ out = (IF call.fn = "seller.create_stocks"
                                THEN seller_create_stocks(
                                         WithoutLaterRows(rows, c), ids)
                                ELSE market_create_stocks(
                                         WithoutLaterRows(rows, c), ids,
                                         "WAREHOUSE_FBS_ID", "utcnow")).stocks

C11_Witness ==
    /\ StocksReturned
    /\ call.fn = "seller.create_stocks"
    /\ Len(call.watch_remnants) = 2
    /\ call.watch_remnants[1].Kod = PyStr(<<"2">>)
    /\ call.watch_remnants[1].Kolichestvo = PyStr(<<"7">>)
    /\ call.watch_remnants[2].Kod = PyStr(<<"2">>)
    /\ call.watch_remnants[2].Kolichestvo = PyStr(<<">", "1", "0">>)
    /\ call.offer_ids = <<<<"1">>, <<"2">>>>
    /\ call.ret.stocks = <<seller_stock_record(<<"2">>, 7),
                           seller_stock_record(<<"1">>, 0)>>

(***************************************************************************)
(* Claims about the entry points.                                          *)
(***************************************************************************)
\* A run of main that ended with no error.
EndedWithoutError == pc = "done" /\ printed = <<>> /\ exc = "none"

\* C2: in a run of seller.main with no error, every inventory row whose
\* code is among the offer ids fetched from the marketplace (each of them
\* has a stock record) has its price record in a submitted price batch.
C2_PricesForFetchedOffers ==
    (prog = "seller" /\ EndedWithoutError) =>
        \A i \in 1..Len(watch_remnants) :
            (\E k \in 1..Len(stocks) :
                 stocks[k].offer_id = str(watch_remnants[i].Kod)) =>
            \E h \in 1..Len(http) :
                /\ http[h].op = "prices"
                /\ http[h].outcome = "ok"
                /\ In(seller_price_record(str(watch_remnants[i].Kod),
                                          price_conversion(watch_remnants[i].Tsena)),
                      http[h].payload)

\* The first page of a get_offer_ids call is asked for with an empty token.
ListingsStarted(a) ==
    Cardinality({h \in 1..Len(http) :
                    /\ http[h].op = "product_list"
                    /\ http[h].account = a
                    /\ http[h].payload = PyStr(<<>>)})

\* C3: in market.main, when the processing of the DBS campaign starts, the
\* price upload of the FBS campaign has run to its end: the offer ids were
\* fetched a second time and every FBS offer with an inventory row had its
\* price record submitted by update_price.
C3_FbsPricesUploadedBeforeDbs ==
    (prog = "market" /\ account = "dbs" /\ pc = "get_offer_ids" /\ npages = 0) =>
        /\ ListingsStarted("fbs") = 2
        /\ \A i \in 1..Len(watch_remnants) :
               (\E k \in 1..Len(stocks) :
                    stocks[k].sku = str(watch_remnants[i].Kod)) =>
               \E h \in 1..Len(http) :
                   /\ http[h].op = "prices"
                   /\ http[h].account = "fbs"
                   /\ \E r \in 1..Len(http[h].payload) :
                          http[h].payload[r].id = str(watch_remnants[i].Kod)

\* C9: once a listing, stock or price call raises, the run makes no further
\* HTTP call (no later batch, no later campaign, no second try of the call
\* that failed), the error is printed once and main returns without an
\* exception leaving it.
C9_FailedCallEndsTheRun ==
    \A h \in 1..Len(http) :
        (http[h].op \in {"product_list", "stocks", "prices"}
             /\ http[h].outcome \in HttpErrors) =>
            /\ h = Len(http)
            /\ pc = "done"
            /\ exc = "none"
            /\ printed = <<Message(http[h].outcome)>>
            /\ account = http[h].account

C9_Witness ==
    /\ prog = "seller"
    /\ pc = "done"
    /\ Len(http) >= 2
    /\ http[Len(http)].op = "stocks"
    /\ http[Len(http)].outcome = "ReadTimeout"
    /\ http[Len(http) - 1].op = "stocks"
    /\ http[Len(http) - 1].outcome = "ok"
    /\ Len(batches) = 2
    /\ printed = <<Message("ReadTimeout")>>

\* C10: no exception ever leaves main: whatever fails in a run is caught
\* and printed.
C10_NoExceptionLeavesMain == exc = "none"

\* The batches passed to the submission call op for account a, in call order.
Submitted(a, op) ==
    LET idx == SelectSeq([h \in 1..Len(http) |-> h],
                   LAMBDA h : http[h].account = a /\ http[h].op = op)
    IN  [k \in 1..Len(idx) |-> http[idx[k]].payload]

\* The limit of the call site that submits op for account a.
BatchLimit(a, op) ==
    IF a = "ozon"
    THEN (IF op = "stocks" THEN OzonStockBatch ELSE OzonPriceBatch)
    ELSE (IF op = "stocks" THEN MarketStockBatch ELSE MarketPriceBatch)

\* The for loop over the stock batches of the current account has ended.
StockLoopEnded ==
    \/ pc \in {"create_prices", "update_price", "upload_prices"}
    \/ EndedWithoutError

\* C12: every batch passed to a submission call is non-empty and no larger
\* than the limit of its call site; the batches passed for one record list
\* are, in order, the start of that list, with the batches still to come
\* they are the whole list, and once the loop has ended they are the whole
\* list; for an empty record list no submission call is made.
C12_BatchesPartitionTheList ==
    /\ \A h \in 1..Len(http) :
           http[h].op \in {"stocks", "prices"} =>
               /\ Len(http[h].payload) >= 1
               /\ Len(http[h].payload) <= BatchLimit(http[h].account, http[h].op)
    /\ pc = "update_stocks" =>
           Concat(Submitted(account, "stocks")) \o Concat(batches) = stocks
    /\ (StockLoopEnded /\ \/ prog = "seller"
                          \/ pc = "upload_prices"
                          \/ pc = "done") =>
           /\ Concat(Submitted(account, "stocks")) = stocks
           /\ stocks = <<>> => Submitted(account, "stocks") = <<>>
    /\ pc = "update_price" =>
           Concat(Submitted(account, "prices")) \o Concat(batches) = prices
    /\ (prog = "seller" /\ EndedWithoutError) =>
           /\ Concat(Submitted(account, "prices")) = prices
           /\ prices = <<>> => Submitted(account, "prices") = <<>>

C12_Witness ==
    /\ prog = "seller"
    /\ EndedWithoutError
    /\ Len(stocks) = 2 * OzonStockBatch + 1
    /\ Len(Submitted("ozon", "stocks")) = 3
    /\ Len(Submitted("ozon", "stocks")[1]) = OzonStockBatch
    /\ Len(Submitted("ozon", "stocks")[2]) = OzonStockBatch
    /\ Len(Submitted("ozon", "stocks")[3]) = 1

\* Records first .. last of lst, as far as lst goes.
Slice(lst, first, last) ==
    SubSeq(lst, first, IF last < Len(lst) THEN last ELSE Len(lst))

\* C13: the HTTP calls of a run are made one after the other in program
\* order: a price batch of an account is submitted only after all its stock
\* batches were submitted with success, the k-th batch passed for a record
\* list is the k-th slice of that list, and in market.main a call for DBS is
\* made only after every call for FBS was made and answered with success.
C13_CallsInOrder ==
    /\ \A i, j \in 1..Len(http) :
           (/\ http[i].op = "prices"
            /\ http[j].op = "stocks"
            /\ http[i].account = http[j].account) =>
               j < i /\ http[j].outcome = "ok"
    /\ \A k \in 1..Len(Submitted(account, "stocks")) :
           Submitted(account, "stocks")[k] =
               Slice(stocks, (k - 1) * BatchLimit(account, "stocks") + 1,
                     k * BatchLimit(account, "stocks"))
    /\ \A k \in 1..Len(Submitted(account, "prices")) :
           Submitted(account, "prices")[k] =
               Slice(prices, (k - 1) * BatchLimit(account, "prices") + 1,
                     k * BatchLimit(account, "prices"))
    /\ \A i, j \in 1..Len(http) :
           (http[i].account = "dbs" /\ http[j].account = "fbs") =>
               j < i /\ http[j].outcome = "ok"
    /\ \A h \in 1..(Len(http) - 1) : http[h].outcome = "ok"

C13_Witness ==
    /\ prog = "market"
    /\ EndedWithoutError
    /\ Len(Submitted("fbs", "stocks")) = 2
    /\ Len(Submitted("dbs", "stocks")) = 2
    /\ \E h \in 1..Len(http) :
           /\ http[h].account = "dbs"
           /\ http[h].op = "product_list"
           /\ http[h - 1].account = "fbs"
           /\ http[h - 1].op = "stocks"

\* C14: while the loop of seller.get_offer_ids runs, the number of items
\* fetched is below the total of the last answer, so that an answer which
\* takes the count to or past its total ends the loop.
C14_OzonLoopEndsPastTotal ==
    (prog = "seller" /\ pc = "get_offer_ids" /\ npages > 0) =>
        Len(product_list) < total

====
